---- MODULE Spec2Model ----
(***************************************************************************)
(* Model of the CRM backend of src/server.ts: an Express application over  *)
(* one better-sqlite3 database.  Every route handler runs one SQL          *)
(* statement synchronously, so a handler is one atomic step.  SQL text is  *)
(* modelled as a sequence of tokens: the handlers build their statements   *)
(* by interpolating the request's module name and body keys into a         *)
(* template, and the statement that results is then parsed and executed.   *)
(***************************************************************************)
EXTENDS Integers, Sequences, FiniteSets, TLC

VARIABLES tables, sqlite_sequence, now, writes, pc, inflight, log

vars == <<tables, sqlite_sequence, now, writes, pc, inflight, log>>

(***************************************************************************)
(* Bounds of the model.                                                    *)
(***************************************************************************)
\* requests that change the database, counted by writes
MaxWrites == 2
\* seconds the clock may advance after start-up
MaxTime == 1
\* largest integer that has a text rendering compared under column affinity
MaxNumeral == 9

(***************************************************************************)
(* SQLite values: NULL, integers (reals are not distinguished from         *)
(* integers), text, and the text CURRENT_TIMESTAMP renders for a second.   *)
(***************************************************************************)
NULL == <<"null", 0>>
Num(i) == <<"int", i>>
Text(s) == <<"text", s>>
Time(n) == <<"time", n>>
\* a request parameter or body member that is not there (JavaScript undefined)
Undefined == <<"undefined", 0>>

IsNum(v) == v[1] = "int"
IsText(v) == v[1] = "text"
IsTime(v) == v[1] = "time"

\* the text of a decimal numeral, and the integer a numeral text denotes
IsNumeral(v) == IsText(v) /\ \E i \in 0..MaxNumeral : ToString(i) = v[2]
NumeralValue(v) == Num(CHOOSE i \in 0..MaxNumeral : ToString(i) = v[2])

(***************************************************************************)
(* The schema of db.exec(CREATE TABLE IF NOT EXISTS ...): the declared     *)
(* type of every column of every table.                                    *)
(***************************************************************************)
Schema ==
  [ roles |-> [id |-> "INTEGER", name |-> "TEXT", level |-> "INTEGER",
               permissions |-> "TEXT"],
    users |-> [id |-> "INTEGER", username |-> "TEXT", password |-> "TEXT",
               role_id |-> "INTEGER", department |-> "TEXT"],
    leads |-> [id |-> "INTEGER", name |-> "TEXT", contact_person |-> "TEXT",
               phone |-> "TEXT", email |-> "TEXT", source |-> "TEXT",
               level |-> "TEXT", status |-> "TEXT", owner_id |-> "INTEGER",
               created_at |-> "DATETIME", updated_at |-> "DATETIME",
               is_deleted |-> "INTEGER", deleted_at |-> "DATETIME"],
    customers |-> [id |-> "INTEGER", name |-> "TEXT", type |-> "TEXT",
               industry |-> "TEXT", contact_person |-> "TEXT", phone |-> "TEXT",
               address |-> "TEXT", level |-> "TEXT", status |-> "TEXT",
               owner_id |-> "INTEGER",
               created_at |-> "DATETIME", updated_at |-> "DATETIME",
               is_deleted |-> "INTEGER", deleted_at |-> "DATETIME"],
    opportunities |-> [id |-> "INTEGER", name |-> "TEXT",
               customer_id |-> "INTEGER", stage |-> "TEXT",
               probability |-> "INTEGER", amount |-> "REAL",
               expected_date |-> "DATE", description |-> "TEXT",
               owner_id |-> "INTEGER",
               created_at |-> "DATETIME", updated_at |-> "DATETIME",
               is_deleted |-> "INTEGER", deleted_at |-> "DATETIME"],
    contracts |-> [id |-> "INTEGER", contract_no |-> "TEXT", name |-> "TEXT",
               customer_id |-> "INTEGER", opportunity_id |-> "INTEGER",
               type |-> "TEXT", amount |-> "REAL", payment_method |-> "TEXT",
               sign_date |-> "DATE", expiry_date |-> "DATE", status |-> "TEXT",
               owner_id |-> "INTEGER",
               created_at |-> "DATETIME", updated_at |-> "DATETIME",
               is_deleted |-> "INTEGER", deleted_at |-> "DATETIME"],
    activities |-> [id |-> "INTEGER", name |-> "TEXT", type |-> "TEXT",
               channel |-> "TEXT", start_time |-> "DATETIME",
               end_time |-> "DATETIME", location |-> "TEXT", details |-> "TEXT",
               budget |-> "REAL", status |-> "TEXT", owner_id |-> "INTEGER",
               created_at |-> "DATETIME", updated_at |-> "DATETIME",
               is_deleted |-> "INTEGER", deleted_at |-> "DATETIME"],
    comments |-> [id |-> "INTEGER", entity_type |-> "TEXT",
               entity_id |-> "INTEGER", user_id |-> "INTEGER",
               content |-> "TEXT", parent_id |-> "INTEGER",
               created_at |-> "DATETIME"],
    follow_ups |-> [id |-> "INTEGER", entity_type |-> "TEXT",
               entity_id |-> "INTEGER", method |-> "TEXT", result |-> "TEXT",
               content |-> "TEXT", next_step_time |-> "DATETIME",
               user_id |-> "INTEGER", created_at |-> "DATETIME"] ]

Tables == DOMAIN Schema
Columns(t) == DOMAIN Schema[t]

\* SQLite's column affinity for a declared type
Affinity(t, c) ==
  CASE Schema[t][c] = "INTEGER" -> "INTEGER"
    [] Schema[t][c] = "TEXT" -> "TEXT"
    [] Schema[t][c] = "REAL" -> "REAL"
    [] OTHER -> "NUMERIC"

\* status TEXT DEFAULT '...' of the tables that declare one.  The source's
\* Chinese literals are written in pinyin (module strings are ASCII):
\* 未跟进 weigenjin, 合作中 hezuozhong, 草稿 caogao, 策划中 cehuazhong.
StatusDefault ==
  [ leads |-> "weigenjin", customers |-> "hezuozhong", contracts |-> "caogao",
    activities |-> "cehuazhong" ]

\* the DEFAULT clause of a column, evaluated at second clock
ColumnDefault(t, c, clock) ==
  CASE c = "status" /\ t \in DOMAIN StatusDefault -> Text(StatusDefault[t])
    [] c \in {"created_at", "updated_at"} -> Time(clock)
    [] c = "is_deleted" -> Num(0)
    [] OTHER -> NULL

\* the UNIQUE columns of a table other than its primary key
UniqueColumns(t) ==
  CASE t = "roles" -> {"name"}
    [] t = "users" -> {"username"}
    [] t = "contracts" -> {"contract_no"}
    [] OTHER -> {}

\* FOREIGN KEY(column) REFERENCES parent(id), as <<child, column, parent>>
ForeignKeys ==
  { <<"users", "role_id", "roles">>,
    <<"leads", "owner_id", "users">>,
    <<"customers", "owner_id", "users">>,
    <<"opportunities", "customer_id", "customers">>,
    <<"opportunities", "owner_id", "users">>,
    <<"contracts", "customer_id", "customers">>,
    <<"contracts", "opportunity_id", "opportunities">>,
    <<"contracts", "owner_id", "users">>,
    <<"activities", "owner_id", "users">>,
    <<"comments", "user_id", "users">>,
    <<"follow_ups", "user_id", "users">> }

\* the value a column of the given affinity stores for a bound value
ApplyAffinity(aff, v) ==
  CASE aff = "TEXT" /\ IsNum(v) -> Text(ToString(v[2]))
    [] aff # "TEXT" /\ IsNumeral(v) -> NumeralValue(v)
    [] OTHER -> v

(***************************************************************************)
(* SQL text.  A statement is a sequence of tokens; a module name or a body *)
(* key of a request is a sequence of tokens too (one token when it is a    *)
(* plain identifier), and interpolating it into a template is              *)
(* concatenation.                                                          *)
(***************************************************************************)
ReservedTokens ==
  { "INSERT", "INTO", "VALUES", "UPDATE", "SET", "WHERE", "(", ")", ",",
    "=", "!=", "?", "--", "NULL", "CURRENT_TIMESTAMP", "0", "1" }

IsIdent(tok) == tok \notin ReservedTokens

\* the expressions of the statements modelled
ExprTokens == { "?", "CURRENT_TIMESTAMP", "NULL", "0", "1" }

SetMax(S) == CHOOSE x \in S : \A y \in S : y <= x

\* index of the first occurrence of tok in s, 0 when there is none
IndexOf(s, tok) ==
  IF \E i \in DOMAIN s : s[i] = tok
    THEN CHOOSE i \in DOMAIN s : s[i] = tok /\ \A j \in 1..(i - 1) : s[j] # tok
    ELSE 0

\* SQLite ignores everything from -- to the end of the line
StripComment(s) ==
  IF IndexOf(s, "--") = 0 THEN s ELSE SubSeq(s, 1, IndexOf(s, "--") - 1)

\* the number of the anonymous parameter ? at position pos
ParamIndexAt(s, pos) == Cardinality({ i \in 1..pos : s[i] = "?" })

ParamCount(s) == Cardinality({ i \in DOMAIN s : s[i] = "?" })

\* fields.join(","), fields.map(() => "?").join(",") and the like
RECURSIVE Join(_, _)
Join(parts, sep) ==
  IF parts = <<>> THEN <<>>
  ELSE IF Len(parts) = 1 THEN parts[1]
  ELSE parts[1] \o sep \o Join(Tail(parts), sep)

EvalExpr(s, pos, params, clock) ==
  CASE s[pos] = "?" -> params[ParamIndexAt(s, pos)]
    [] s[pos] = "CURRENT_TIMESTAMP" -> Time(clock)
    [] s[pos] = "NULL" -> NULL
    [] s[pos] = "0" -> Num(0)
    [] s[pos] = "1" -> Num(1)

(***************************************************************************)
(* The database: D.rows maps every table to its set of rows (a row maps    *)
(* the table's columns to values), D.seq is sqlite_sequence, the largest   *)
(* rowid AUTOINCREMENT has handed out per table.  Running a statement      *)
(* gives the database after it, or the error it threw and the database     *)
(* unchanged.                                                              *)
(***************************************************************************)
Fail(D, err) ==
  [ ok |-> FALSE, error |-> err, rows |-> D.rows, seq |-> D.seq,
    changes |-> 0, lastInsertRowid |-> NULL ]

PrimaryKeyOk(R, t) == \A r1, r2 \in R[t] : r1["id"] = r2["id"] => r1 = r2

UniqueOk(R, t) ==
  \A c \in UniqueColumns(t) : \A r1, r2 \in R[t] :
     (r1 # r2 /\ r1[c] # NULL) => r1[c] # r2[c]

\* better-sqlite3 is compiled with SQLITE_DEFAULT_FOREIGN_KEYS=1
ForeignKeysOk(R) ==
  \A fk \in ForeignKeys : \A r \in R[fk[1]] :
     r[fk[2]] = NULL \/ \E p \in R[fk[3]] : p["id"] = r[fk[2]]

\* a column compared with a bound value: the column's affinity is applied
\* to the value, and NULL equals nothing
SqlEquals(aff, stored, v) ==
  stored # NULL /\ v # NULL /\ stored = ApplyAffinity(aff, v)

\* INSERT INTO t ( c1 , ... ) VALUES ( e1 , ... )
ExecInsert(D, s, params, clock) ==
  LET p == IndexOf(s, ")")
      n == Len(s)
      shape == /\ n >= 10 /\ p >= 6 /\ n >= p + 4
               /\ s[1] = "INSERT" /\ s[2] = "INTO" /\ IsIdent(s[3])
               /\ s[4] = "(" /\ s[p + 1] = "VALUES" /\ s[p + 2] = "("
               /\ s[n] = ")"
      cols == SubSeq(s, 5, p - 1)
      vals == SubSeq(s, p + 3, n - 1)
      listsOk == /\ Len(cols) % 2 = 1 /\ Len(vals) % 2 = 1
                 /\ \A i \in DOMAIN cols :
                      IF i % 2 = 1 THEN IsIdent(cols[i]) ELSE cols[i] = ","
                 /\ \A i \in DOMAIN vals :
                      IF i % 2 = 1 THEN vals[i] \in ExprTokens ELSE vals[i] = ","
      t == s[3]
      nCols == (Len(cols) + 1) \div 2
      \* position in s of the expression for the k-th listed column
      valPos(k) == p + 3 + 2 * (k - 1)
      given(c) == { k \in 1..nCols : cols[2 * k - 1] = c }
      row0 == [ c \in Columns(t) |->
                 IF given(c) = {} THEN ColumnDefault(t, c, clock)
                 ELSE ApplyAffinity(Affinity(t, c),
                        EvalExpr(s, valPos(SetMax(given(c))), params, clock)) ]
      auto == SetMax({ D.seq[t] } \cup { r["id"][2] : r \in D.rows[t] }) + 1
      row == IF row0["id"] = NULL THEN [row0 EXCEPT !["id"] = Num(auto)] ELSE row0
      R == [D.rows EXCEPT ![t] = @ \cup { row }]
  IN  IF ~(shape /\ listsOk) THEN Fail(D, "syntax error")
      ELSE IF t \notin Tables THEN Fail(D, "no such table")
      ELSE IF \E k \in 1..nCols : cols[2 * k - 1] \notin Columns(t)
        THEN Fail(D, "no such column")
      ELSE IF Len(vals) # Len(cols) THEN Fail(D, "values for columns")
      ELSE IF ParamCount(s) # Len(params) THEN Fail(D, "RangeError")
      ELSE IF ~IsNum(row["id"]) THEN Fail(D, "datatype mismatch")
      ELSE IF \E r \in D.rows[t] : r["id"] = row["id"]
        THEN Fail(D, "UNIQUE constraint failed")
      ELSE IF ~UniqueOk(R, t) THEN Fail(D, "UNIQUE constraint failed")
      ELSE IF ~ForeignKeysOk(R) THEN Fail(D, "FOREIGN KEY constraint failed")
      ELSE [ ok |-> TRUE, error |-> "", rows |-> R,
             seq |-> [D.seq EXCEPT ![t] = SetMax({ @, row["id"][2] })],
             changes |-> 1, lastInsertRowid |-> row["id"] ]

\* UPDATE t SET c1 = e1 , ... [ WHERE c op e ]
ExecUpdate(D, s, params, clock) ==
  LET n == Len(s)
      w == IndexOf(s, "WHERE")
      last == IF w = 0 THEN n ELSE w - 1
      m == last - 3
      shape == /\ n >= 6 /\ s[1] = "UPDATE" /\ IsIdent(s[2]) /\ s[3] = "SET"
               /\ m >= 3 /\ m % 4 = 3
               /\ \A i \in 1..m :
                    CASE i % 4 = 1 -> IsIdent(s[3 + i])
                      [] i % 4 = 2 -> s[3 + i] = "="
                      [] i % 4 = 3 -> s[3 + i] \in ExprTokens
                      [] OTHER -> s[3 + i] = ","
               /\ w # 0 => /\ n = w + 3 /\ IsIdent(s[w + 1])
                           /\ s[w + 2] \in { "=", "!=" }
                           /\ s[w + 3] \in ExprTokens
      t == s[2]
      nAssign == (m + 1) \div 4
      colPos(k) == 4 * k
      assigned(c) == { k \in 1..nAssign : s[colPos(k)] = c }
      matches(r) ==
        IF w = 0 THEN TRUE
        ELSE LET eq == SqlEquals(Affinity(t, s[w + 1]), r[s[w + 1]],
                                 EvalExpr(s, w + 3, params, clock))
             IN  IF s[w + 2] = "=" THEN eq
                 ELSE r[s[w + 1]] # NULL
                      /\ EvalExpr(s, w + 3, params, clock) # NULL /\ ~eq
      \* when a column is assigned more than once the rightmost one counts
      upd(r) == [ c \in Columns(t) |->
                   IF assigned(c) = {} THEN r[c]
                   ELSE ApplyAffinity(Affinity(t, c),
                          EvalExpr(s, colPos(SetMax(assigned(c))) + 2,
                                   params, clock)) ]
      hit == { r \in D.rows[t] : matches(r) }
      new == (D.rows[t] \ hit) \cup { upd(r) : r \in hit }
      R == [D.rows EXCEPT ![t] = new]
  IN  IF ~shape THEN Fail(D, "syntax error")
      ELSE IF t \notin Tables THEN Fail(D, "no such table")
      ELSE IF \/ \E k \in 1..nAssign : s[colPos(k)] \notin Columns(t)
              \/ (w # 0 /\ s[w + 1] \notin Columns(t))
        THEN Fail(D, "no such column")
      ELSE IF ParamCount(s) # Len(params) THEN Fail(D, "RangeError")
      ELSE IF \E r \in new : ~IsNum(r["id"]) THEN Fail(D, "datatype mismatch")
      ELSE IF Cardinality({ r["id"] : r \in new }) # Cardinality(D.rows[t])
        THEN Fail(D, "UNIQUE constraint failed")
      ELSE IF ~UniqueOk(R, t) THEN Fail(D, "UNIQUE constraint failed")
      ELSE IF ~ForeignKeysOk(R) THEN Fail(D, "FOREIGN KEY constraint failed")
      ELSE [ ok |-> TRUE, error |-> "", rows |-> R, seq |-> D.seq,
             changes |-> Cardinality(hit), lastInsertRowid |-> NULL ]

\* db.prepare(sql).run(...params) at second clock
ExecSql(D, sql, params, clock) ==
  LET s == StripComment(sql)
  IN  IF s # <<>> /\ s[1] = "INSERT" THEN ExecInsert(D, s, params, clock)
      ELSE IF s # <<>> /\ s[1] = "UPDATE" THEN ExecUpdate(D, s, params, clock)
      ELSE Fail(D, "syntax error")

(***************************************************************************)
(* LIKE.  A string is an atom of the model, so the spelling of every       *)
(* string that reaches a LIKE is given here; a string that is not spelled  *)
(* cannot be matched (evaluation stops rather than guess).                 *)
(***************************************************************************)
Spell(str) ==
  CASE str = "Tech Solutions Inc" ->
         <<"T", "e", "c", "h", " ", "S", "o", "l", "u", "t", "i", "o", "n", "s", " ", "I", "n", "c">>
    [] str = "Alice Smith" ->
         <<"A", "l", "i", "c", "e", " ", "S", "m", "i", "t", "h">>
    [] str = "Green Energy Co" ->
         <<"G", "r", "e", "e", "n", " ", "E", "n", "e", "r", "g", "y", " ", "C", "o">>
    [] str = "Bob Brown" ->
         <<"B", "o", "b", " ", "B", "r", "o", "w", "n">>
    [] str = "Global Logistics" ->
         <<"G", "l", "o", "b", "a", "l", " ", "L", "o", "g", "i", "s", "t", "i", "c", "s">>
    [] str = "Charlie Davis" ->
         <<"C", "h", "a", "r", "l", "i", "e", " ", "D", "a", "v", "i", "s">>
    [] str = "Q1 Software Upgrade" ->
         <<"Q", "1", " ", "S", "o", "f", "t", "w", "a", "r", "e", " ", "U", "p", "g", "r", "a", "d", "e">>
    [] str = "Acme" ->
         <<"A", "c", "m", "e">>
    [] str = "Evil" ->
         <<"E", "v", "i", "l">>
    [] str = "al" ->
         <<"a", "l">>
    [] str = "ACME" ->
         <<"A", "C", "M", "E">>
    [] str = "_" ->
         <<"_">>
    [] str = "1" ->
         <<"1">>
    [] str = "2" ->
         <<"2">>
    [] str = "9" ->
         <<"9">>

UpperCase ==
  <<"A", "B", "C", "D", "E", "F", "G", "H", "I", "J", "K", "L", "M", "N", "O", "P", "Q", "R", "S", "T", "U", "V", "W", "X", "Y", "Z">>
LowerCase ==
  <<"a", "b", "c", "d", "e", "f", "g", "h", "i", "j", "k", "l", "m", "n", "o", "p", "q", "r", "s", "t", "u", "v", "w", "x", "y", "z">>

\* LIKE folds the case of ASCII letters
Fold(ch) ==
  IF \E i \in DOMAIN UpperCase : UpperCase[i] = ch
    THEN LowerCase[CHOOSE i \in DOMAIN UpperCase : UpperCase[i] = ch]
    ELSE ch

\* txt LIKE pat over characters: % is any run of characters, _ any one
RECURSIVE LikeMatch(_, _)
LikeMatch(pat, txt) ==
  IF pat = <<>> THEN txt = <<>>
  ELSE IF pat[1] = "%"
    THEN LikeMatch(Tail(pat), txt) \/ (txt # <<>> /\ LikeMatch(pat, Tail(txt)))
  ELSE /\ txt # <<>>
       /\ (pat[1] = "_" \/ Fold(pat[1]) = Fold(txt[1]))
       /\ LikeMatch(Tail(pat), Tail(txt))

\* column LIKE ? with the parameter `%${q}%`
LikeContains(stored, q) ==
  /\ stored # NULL
  /\ LikeMatch(<<"%">> \o Spell(q) \o <<"%">>,
               IF IsNum(stored) THEN Spell(ToString(stored[2])) ELSE Spell(stored[2]))

(***************************************************************************)
(* Requests and responses.  A path is a sequence of segments; a segment is *)
(* a sequence of tokens, so that a decoded segment such as                 *)
(* "leads SET name = ? --" can be interpolated as the handlers do.  A body *)
(* is a sequence of <<key, value>> pairs in Object.keys order.             *)
(***************************************************************************)
Seg(tok) == <<tok>>

\* the routes in the order startServer registers them: <<method, pattern,
\* handler>>; a pattern element starting a parameter is written ":name"
Routes ==
  << <<"GET", <<"api", "me">>, "me">>,
     <<"GET", <<"api", ":module">>, "list">>,
     <<"POST", <<"api", ":module">>, "create">>,
     <<"PUT", <<"api", ":module", ":id">>, "update">>,
     <<"DELETE", <<"api", ":module", ":id">>, "softDelete">>,
     <<"GET", <<"api", "comments", ":type", ":id">>, "listComments">>,
     <<"POST", <<"api", "comments">>, "postComment">>,
     <<"GET", <<"api", "stats", "opportunities">>, "stats">>,
     <<"POST", <<"api", ":module", ":id", "restore">>, "restore">> >>

RouteParams == { ":module", ":id", ":type" }

RouteMatches(route, method, path) ==
  /\ route[1] = method
  /\ Len(route[2]) = Len(path)
  /\ \A i \in DOMAIN path :
       route[2][i] \in RouteParams \/ path[i] = Seg(route[2][i])

\* Express runs the first registered route that matches; none of the
\* handlers calls next()
Dispatch(method, path) ==
  IF \E i \in DOMAIN Routes : RouteMatches(Routes[i], method, path)
    THEN Routes[CHOOSE i \in DOMAIN Routes :
                  /\ RouteMatches(Routes[i], method, path)
                  /\ \A j \in 1..(i - 1) : ~RouteMatches(Routes[j], method, path)][3]
    ELSE "none"

NoQuery ==
  [ q |-> Undefined, status |-> Undefined, owner_id |-> Undefined,
    is_deleted |-> Undefined ]

Request(method, path, query, body) ==
  [ method |-> method, path |-> path, query |-> query, body |-> body ]

\* res.json(...) of the handlers, and the answer of Express's default error
\* handler when a handler throws
JsonRows(rows) ==
  [ status |-> 200, kind |-> "rows", error |-> "", id |-> NULL, rows |-> rows,
    groups |-> {} ]
JsonId(id) ==
  [ status |-> 200, kind |-> "id", error |-> "", id |-> id, rows |-> <<>>,
    groups |-> {} ]
JsonSuccess ==
  [ status |-> 200, kind |-> "success", error |-> "", id |-> NULL, rows |-> <<>>,
    groups |-> {} ]
JsonError(code, msg) ==
  [ status |-> code, kind |-> "error", error |-> msg, id |-> NULL, rows |-> <<>>,
    groups |-> {} ]
Thrown(msg) == JsonError(500, msg)

\* what a handler does: the database after it and the response
Outcome(D, resp) == [ rows |-> D.rows, seq |-> D.seq, response |-> resp ]

DbOf(result) == [ rows |-> result.rows, seq |-> result.seq ]

EmptyDb == [ rows |-> [ t \in Tables |-> {} ], seq |-> [ t \in Tables |-> 0 ] ]

\* ORDER BY: NULL sorts before numbers, numbers before text; the text of a
\* later second sorts after the text of an earlier one
SortClass(v) ==
  CASE v = NULL -> 0
    [] IsNum(v) -> 1
    [] IsTime(v) -> 2

SortsBefore(a, b) ==
  \/ SortClass(a) < SortClass(b)
  \/ (SortClass(a) = SortClass(b) /\ a[2] < b[2])

\* ORDER BY col DESC; rows that tie come out in rowid order
RECURSIVE OrderByDesc(_, _)
OrderByDesc(S, col) ==
  IF S = {} THEN <<>>
  ELSE LET first == CHOOSE r \in S : \A o \in S \ { r } :
                      \/ SortsBefore(o[col], r[col])
                      \/ (o[col] = r[col] /\ r["id"][2] < o["id"][2])
       IN  <<first>> \o OrderByDesc(S \ { first }, col)

Keys(body) == [ i \in DOMAIN body |-> body[i][1] ]
Values(body) == [ i \in DOMAIN body |-> body[i][2] ]

\* a JavaScript value that is truthy: present and not the empty string
Truthy(v) == v # Undefined /\ v # Text("")

validModules == << "leads", "customers", "opportunities", "contracts", "activities" >>

Includes(list, segment) == \E i \in DOMAIN list : segment = Seg(list[i])

(***************************************************************************)
(* The route handlers.  Each takes the database, the request's parameters  *)
(* and the second it runs in, and gives the database after it and the      *)
(* response.                                                               *)
(***************************************************************************)
\* const { ..., is_deleted = 0 } = req.query
DefaultIsDeletedWrong == Num(1)
DefaultIsDeleted == Num(0)

\* app.get("/api/:module")
ListHandler(D, module, query) ==
  IF ~Includes(validModules, module)
    THEN Outcome(D, JsonError(404, "Invalid module"))
  ELSE
    LET t == module[1]
        is_deleted == IF query.is_deleted = Undefined THEN DefaultIsDeleted
                      ELSE query.is_deleted
        needed == { "is_deleted", "created_at" }
                  \cup (IF Truthy(query.q) THEN { "name", "contact_person" } ELSE {})
                  \cup (IF Truthy(query.status) THEN { "status" } ELSE {})
        data == { r \in D.rows[t] :
                  /\ SqlEquals(Affinity(t, "is_deleted"), r["is_deleted"], is_deleted)
                  /\ Truthy(query.q) =>
                       \/ LikeContains(r["name"], query.q[2])
                       \/ LikeContains(r["contact_person"], query.q[2])
                  /\ Truthy(query.status) =>
                       SqlEquals(Affinity(t, "status"), r["status"], query.status) }
    IN  IF ~(needed \subseteq Columns(t))
          THEN Outcome(D, Thrown("no such column"))
          ELSE Outcome(D, JsonRows(OrderByDesc(data, "created_at")))

\* app.post("/api/:module")
CreateSql(module, body) ==
  <<"INSERT", "INTO">> \o module \o <<"(">> \o Join(Keys(body), <<",">>)
    \o <<")", "VALUES", "(">>
    \o Join([ i \in DOMAIN body |-> <<"?">> ], <<",">>) \o <<")">>

CreateHandler(D, module, body, clock) ==
  LET result == ExecSql(D, CreateSql(module, body), Values(body), clock)
  IN  IF result.ok THEN Outcome(DbOf(result), JsonId(result.lastInsertRowid))
      ELSE Outcome(D, Thrown(result.error))

\* app.put("/api/:module/:id")
UpdateSql(module, body) ==
  <<"UPDATE">> \o module \o <<"SET">>
    \o Join([ i \in DOMAIN body |-> body[i][1] \o <<"=", "?">> ], <<",">>)
    \o <<",", "updated_at", "=", "CURRENT_TIMESTAMP", "WHERE", "id", "=", "?">>

UpdateHandler(D, module, id, body, clock) ==
  LET result == ExecSql(D, UpdateSql(module, body),
                        Values(body) \o <<Text(id[1])>>, clock)
  IN  IF result.ok THEN Outcome(DbOf(result), JsonSuccess)
      ELSE Outcome(D, Thrown(result.error))

SoftDeleteSqlStampsUpdate(module) ==
  <<"UPDATE">> \o module
    \o <<"SET", "is_deleted", "=", "1", ",", "deleted_at", "=",
         "CURRENT_TIMESTAMP", ",", "updated_at", "=", "CURRENT_TIMESTAMP",
         "WHERE", "id", "=", "?">>

\* app.delete("/api/:module/:id")
SoftDeleteSql(module) ==
  <<"UPDATE">> \o module
    \o <<"SET", "is_deleted", "=", "1", ",", "deleted_at", "=",
         "CURRENT_TIMESTAMP", "WHERE", "id", "=", "?">>

SoftDeleteHandler(D, module, id, clock) ==
  LET result == ExecSql(D, SoftDeleteSql(module), <<Text(id[1])>>, clock)
  IN  IF result.ok THEN Outcome(DbOf(result), JsonSuccess)
      ELSE Outcome(D, Thrown(result.error))

RestoreSqlKeepsFlag(module) ==
  <<"UPDATE">> \o module
    \o <<"SET", "is_deleted", "=", "1", ",", "deleted_at", "=", "NULL",
         "WHERE", "id", "=", "?">>

\* app.post("/api/:module/:id/restore")
RestoreSql(module) ==
  <<"UPDATE">> \o module
    \o <<"SET", "is_deleted", "=", "0", ",", "deleted_at", "=", "NULL",
         "WHERE", "id", "=", "?">>

RestoreHandler(D, module, id, clock) ==
  LET result == ExecSql(D, RestoreSql(module), <<Text(id[1])>>, clock)
  IN  IF result.ok THEN Outcome(DbOf(result), JsonSuccess)
      ELSE Outcome(D, Thrown(result.error))

\* app.get("/api/comments/:type/:id"): comments joined with their users
CommentsHandler(D, type, id) ==
  LET joined(c, u) ==
        [ col \in Columns("comments") \cup { "username" } |->
            IF col = "username" THEN u["username"] ELSE c[col] ]
      matching ==
        { joined(p[1], p[2]) :
            p \in { q \in D.rows["comments"] \X D.rows["users"] :
                     /\ q[1]["user_id"] # NULL /\ q[1]["user_id"] = q[2]["id"]
                     /\ SqlEquals(Affinity("comments", "entity_type"),
                                  q[1]["entity_type"], Text(type[1]))
                     /\ SqlEquals(Affinity("comments", "entity_id"),
                                  q[1]["entity_id"], Text(id[1])) } }
  IN  Outcome(D, JsonRows(OrderByDesc(matching, "created_at")))

\* a member of req.body by name; undefined when the body has no such key
Member(body, key) ==
  IF \E k \in DOMAIN body : body[k][1] = Seg(key)
    THEN body[SetMax({ k \in DOMAIN body : body[k][1] = Seg(key) })][2]
    ELSE Undefined

PostCommentFields ==
  <<"entity_type", "entity_id", "user_id", "content", "parent_id">>

PostCommentSql ==
  <<"INSERT", "INTO", "comments", "(">>
    \o Join([ i \in DOMAIN PostCommentFields |-> <<PostCommentFields[i]>> ], <<",">>)
    \o <<")", "VALUES", "(">>
    \o Join([ i \in DOMAIN PostCommentFields |-> <<"?">> ], <<",">>) \o <<")">>

\* app.post("/api/comments"): the outcomes the handler can have.  Whether
\* run() binds an undefined member as NULL or throws a TypeError is the
\* binding library's choice, so both outcomes are kept.
PostCommentOutcomes(D, body, clock) ==
  LET values == [ i \in DOMAIN PostCommentFields |->
                    Member(body, PostCommentFields[i]) ]
      bound == [ i \in DOMAIN values |->
                   IF values[i] = Undefined THEN NULL ELSE values[i] ]
      result == ExecSql(D, PostCommentSql, bound, clock)
      ran == IF result.ok
               THEN Outcome(DbOf(result), JsonId(result.lastInsertRowid))
               ELSE Outcome(D, Thrown(result.error))
  IN  IF \E i \in DOMAIN values : values[i] = Undefined
        THEN { ran, Outcome(D, Thrown("TypeError")) }
        ELSE { ran }

\* SUM(amount) of a set of rows: NULL when no amount is a number
RECURSIVE SumAmount(_)
SumAmount(S) ==
  IF S = {} THEN 0
  ELSE LET r == CHOOSE x \in S : TRUE
       IN  (IF IsNum(r["amount"]) THEN r["amount"][2] ELSE 0) + SumAmount(S \ { r })

StatsHandlerCountsDeleted(D) ==
  LET live == D.rows["opportunities"]
      group(stage) == { r \in live : r["stage"] = stage }
      stats == { [ stage |-> stage, count |-> Cardinality(group(stage)),
                   total_amount |->
                     IF \A r \in group(stage) : r["amount"] = NULL THEN NULL
                     ELSE Num(SumAmount(group(stage))) ] :
                 stage \in { r["stage"] : r \in live } }
  IN  Outcome(D, [ JsonRows(<<>>) EXCEPT !.kind = "stats", !.groups = stats ])

\* app.get("/api/stats/opportunities")
StatsHandler(D) ==
  LET live == { r \in D.rows["opportunities"] : r["is_deleted"] = Num(0) }
      group(stage) == { r \in live : r["stage"] = stage }
      stats == { [ stage |-> stage, count |-> Cardinality(group(stage)),
                   total_amount |->
                     IF \A r \in group(stage) : r["amount"] = NULL THEN NULL
                     ELSE Num(SumAmount(group(stage))) ] :
                 stage \in { r["stage"] : r \in live } }
  IN  Outcome(D, [ JsonRows(<<>>) EXCEPT !.kind = "stats", !.groups = stats ])

\* app.get("/api/me"): the admin user joined with its role
MeHandler(D) ==
  LET joined(u, r) ==
        [ col \in Columns("users") \cup { "role_name", "role_level", "permissions" } |->
            CASE col = "role_name" -> r["name"]
              [] col = "role_level" -> r["level"]
              [] col = "permissions" -> r["permissions"]
              [] OTHER -> u[col] ]
      found ==
        { joined(p[1], p[2]) :
            p \in { q \in D.rows["users"] \X D.rows["roles"] :
                     /\ q[1]["role_id"] # NULL /\ q[1]["role_id"] = q[2]["id"]
                     /\ q[1]["username"] = Text("admin") } }
  IN  Outcome(D, JsonRows(OrderByDesc(found, "id")))

(***************************************************************************)
(* Start-up: the schema is created and, the roles table being empty, the   *)
(* seed rows are inserted (pinyin for the source's Chinese literals).      *)
(***************************************************************************)
InsertSql(t, cols) ==
  <<"INSERT", "INTO", t, "(">> \o Join([ i \in DOMAIN cols |-> <<cols[i]>> ], <<",">>)
    \o <<")", "VALUES", "(">>
    \o Join([ i \in DOMAIN cols |-> <<"?">> ], <<",">>) \o <<")">>

RECURSIVE RunAll(_, _, _, _)
RunAll(D, sql, paramLists, clock) ==
  IF paramLists = <<>> THEN D
  ELSE RunAll(DbOf(ExecSql(D, sql, Head(paramLists), clock)), sql,
              Tail(paramLists), clock)

\* the columns and the rows of the seed inserts
RoleColumns == <<"name", "level", "permissions">>
RoleSeeds ==
  << <<Text("chaojiguanliyuan"), Num(1), Text("{\"all\":true}")>>,
     <<Text("bumenguanliyuan"), Num(2), Text("{\"dept\":true}")>>,
     <<Text("putongyuangong"), Num(3), Text("{\"self\":true}")>>,
     <<Text("zhiduyonghu"), Num(4), Text("{\"read\":true}")>> >>

UserColumns == <<"username", "password", "role_id", "department">>
\* adminRole: the role the SELECT by name finds
AdminRoles(D) == { r \in D.rows["roles"] : r["name"] = Text("chaojiguanliyuan") }
AdminSeed(adminRole) ==
  <<Text("admin"), Text("admin123"), adminRole["id"], Text("zongbu")>>

LeadColumns ==
  <<"name", "contact_person", "phone", "email", "source", "level", "status",
    "owner_id">>
LeadSeeds ==
  << <<Text("Tech Solutions Inc"), Text("Alice Smith"), Text("123-456-7890"),
       Text("alice@tech.com"), Text("guanwang"), Text("A"),
       Text("genjinzhong"), Num(1)>>,
     <<Text("Green Energy Co"), Text("Bob Brown"), Text("098-765-4321"),
       Text("bob@green.com"), Text("tuijian"), Text("B"),
       Text("weigenjin"), Num(1)>> >>

CustomerColumns ==
  <<"name", "type", "industry", "contact_person", "phone", "address", "level",
    "status", "owner_id">>
CustomerSeeds ==
  << <<Text("Global Logistics"), Text("qiye"), Text("wuliu"),
       Text("Charlie Davis"), Text("555-0199"), Text("123 Main St"),
       Text("VIP"), Text("hezuozhong"), Num(1)>> >>

OpportunityColumns ==
  <<"name", "customer_id", "stage", "probability", "amount", "expected_date",
    "owner_id">>
OpportunitySeeds ==
  << <<Text("Q1 Software Upgrade"), Num(1), Text("chubugoutong"), Num(20),
       Num(50000), Text("2026-06-01"), Num(1)>> >>

SeedRoles(D, clock) ==
  RunAll(D, InsertSql("roles", RoleColumns), RoleSeeds, clock)

SeedAdmin(D, clock) ==
  LET adminRole == CHOOSE r \in AdminRoles(D) : TRUE
  IN  RunAll(D, InsertSql("users", UserColumns), <<AdminSeed(adminRole)>>, clock)

SeedLeads(D, clock) ==
  RunAll(D, InsertSql("leads", LeadColumns), LeadSeeds, clock)

SeedCustomers(D, clock) ==
  RunAll(D, InsertSql("customers", CustomerColumns), CustomerSeeds, clock)

SeedOpportunities(D, clock) ==
  RunAll(D, InsertSql("opportunities", OpportunityColumns), OpportunitySeeds,
         clock)

\* the seed inserts in program order, as run one by one: the k-th statement
\* and its parameters on database D
SeedCount ==
  Len(RoleSeeds) + 1 + Len(LeadSeeds) + Len(CustomerSeeds) + Len(OpportunitySeeds)

SeedStatement(k, D) ==
  LET users == Len(RoleSeeds) + 1
      leads == users + Len(LeadSeeds)
      customers == leads + Len(CustomerSeeds)
  IN  CASE k < users ->
             [ sql |-> InsertSql("roles", RoleColumns), params |-> RoleSeeds[k] ]
        [] k = users ->
             [ sql |-> InsertSql("users", UserColumns),
               params |-> AdminSeed(CHOOSE r \in AdminRoles(D) : TRUE) ]
        [] k > users /\ k <= leads ->
             [ sql |-> InsertSql("leads", LeadColumns),
               params |-> LeadSeeds[k - users] ]
        [] k > leads /\ k <= customers ->
             [ sql |-> InsertSql("customers", CustomerColumns),
               params |-> CustomerSeeds[k - leads] ]
        [] OTHER ->
             [ sql |-> InsertSql("opportunities", OpportunityColumns),
               params |-> OpportunitySeeds[k - customers] ]

SeedNeededAlways(D) == TRUE

\* roleCount.count === 0
SeedNeeded(D) == D.rows["roles"] = {}

\* if (roleCount.count === 0) { ... }
Seed(D, clock) ==
  IF ~SeedNeeded(D) THEN D
  ELSE SeedOpportunities(SeedCustomers(SeedLeads(SeedAdmin(SeedRoles(D, clock),
         clock), clock), clock), clock)

\* the database of a first start, stage by stage
SeededRoles == SeedRoles(EmptyDb, 0)
SeededAdmin == SeedAdmin(SeededRoles, 0)
SeededLeads == SeedLeads(SeededAdmin, 0)
SeededCustomers == SeedCustomers(SeededLeads, 0)
SeededDb == SeedOpportunities(SeededCustomers, 0)

(***************************************************************************)
(* The requests the model sends.                                           *)
(***************************************************************************)
\* decoded :module segments: modules of the allow-list, other tables, no
\* table, and a segment that carries SQL
ModuleInputs ==
  { Seg("leads"), Seg("opportunities"), Seg("comments"), Seg("users"),
    Seg("nosuch"), <<"leads", "SET", "name", "=", "?", "--">> }

ListModuleInputs ==
  { Seg("leads"), Seg("customers"), Seg("opportunities"), Seg("contracts"),
    Seg("activities"), Seg("comments"), Seg("nosuch") }

IdInputs == { Seg("1"), Seg("9") }

QueryInputs ==
  { NoQuery,
    [NoQuery EXCEPT !.is_deleted = Text("1")],
    [NoQuery EXCEPT !.is_deleted = Text("true")],
    [NoQuery EXCEPT !.q = Text("al")],
    [NoQuery EXCEPT !.status = Text("weigenjin")],
    [NoQuery EXCEPT !.q = Text("ACME"), !.is_deleted = Text("1")] }

\* bodies of POST /api/:module
CreateBodies ==
  { <<>>,
    << <<Seg("name"), Text("Acme")>>, <<Seg("owner_id"), Num(1)>> >>,
    << <<Seg("nonexistent_col"), Num(1)>> >>,
    << <<Seg("id"), Num(7)>> >>,
    << <<Seg("is_deleted"), Num(1)>> >>,
    << <<Seg("entity_type"), Text("leads")>>, <<Seg("entity_id"), Num(1)>>,
       <<Seg("user_id"), Num(1)>>, <<Seg("content"), Text("hi")>>,
       <<Seg("parent_id"), NULL>> >>,
    << <<Seg("username"), Text("mallory")>>, <<Seg("role_id"), Num(1)>> >>,
    << << <<"name", ")", "VALUES", "(", "?", ")", "--">>, Text("Evil")>> >>,
    << <<Seg("name"), Text("Acme")>>, <<Seg("stage"), Text("chubugoutong")>>,
       <<Seg("amount"), Num(20000)>> >>,
    << <<Seg("entity_type"), Text("leads")>>, <<Seg("entity_id"), Num(1)>>,
       <<Seg("user_id"), NULL>>, <<Seg("content"), Text("hi")>> >>,
    << <<Seg("entity_type"), Text("leads")>>, <<Seg("entity_id"), Num(1)>>,
       <<Seg("user_id"), Num(1)>>, <<Seg("content"), Text("hi")>>,
       <<Seg("parent_id"), NULL>>, <<Seg("id"), Num(7)>> >> }

\* bodies of PUT /api/:module/:id
UpdateBodies ==
  { <<>>,
    << <<Seg("name"), Text("Acme")>>, <<Seg("owner_id"), Num(1)>> >>,
    << <<Seg("status"), Text("genjinzhong")>> >>,
    << <<Seg("nonexistent_col"), Num(1)>> >>,
    << <<Seg("id"), Num(7)>> >>,
    << <<Seg("is_deleted"), Num(1)>> >>,
    << <<Seg("created_at"), Num(0)>> >>,
    << <<Seg("updated_at"), Num(0)>> >>,
    << << <<"name", "=", "?", "WHERE", "id", "!=", "?", "--">>, Text("Evil")>> >>,
    << << <<"content", "=", "?", "WHERE", "id", "=", "?", "--">>, Text("edited")>> >> }

Api(rest) == <<Seg("api")>> \o rest

Requests ==
  { Request("GET", Api(<<Seg("me")>>), NoQuery, <<>>),
    Request("GET", Api(<<Seg("stats"), Seg("opportunities")>>), NoQuery, <<>>) }
  \cup { Request("GET", Api(<<m>>), q, <<>>) :
           m \in ListModuleInputs, q \in QueryInputs }
  \cup { Request("POST", Api(<<m>>), NoQuery, b) :
           m \in ModuleInputs, b \in CreateBodies }
  \cup { Request("PUT", Api(<<m, i>>), NoQuery, b) :
           m \in ModuleInputs, i \in IdInputs, b \in UpdateBodies }
  \cup { Request("DELETE", Api(<<m, i>>), NoQuery, <<>>) :
           m \in ModuleInputs, i \in IdInputs }
  \cup { Request("GET", Api(<<Seg("comments"), m, i>>), NoQuery, <<>>) :
           m \in { Seg("leads") }, i \in IdInputs }
  \cup { Request("POST", Api(<<m, i, Seg("restore")>>), NoQuery, <<>>) :
           m \in ModuleInputs, i \in IdInputs }

Routed(handler) == { r \in Requests : Dispatch(r.method, r.path) = handler }

MeRequests == Routed("me")
ListRequests == Routed("list")
CreateRequests == Routed("create")
UpdateRequests == Routed("update")
SoftDeleteRequests == Routed("softDelete")
ListCommentsRequests == Routed("listComments")
PostCommentRequests == Routed("postComment")
StatsRequests == Routed("stats")
RestoreRequests == Routed("restore")

\* the outcome of the reading handler a request is dispatched to
QueryOf(D, req) ==
  LET handler == Dispatch(req.method, req.path)
  IN  CASE handler = "me" -> MeHandler(D)
        [] handler = "list" -> ListHandler(D, req.path[2], req.query)
        [] handler = "listComments" ->
             CommentsHandler(D, req.path[3], req.path[4])
        [] handler = "stats" -> StatsHandler(D)

\* what the program does with a request at second clock: the outcome of the
\* handler the request is dispatched to
Serve(D, req, clock) ==
  LET handler == Dispatch(req.method, req.path)
  IN  CASE handler = "create" -> CreateHandler(D, req.path[2], req.body, clock)
        [] handler = "update" ->
             UpdateHandler(D, req.path[2], req.path[3], req.body, clock)
        [] handler = "softDelete" ->
             SoftDeleteHandler(D, req.path[2], req.path[3], clock)
        [] handler = "restore" ->
             RestoreHandler(D, req.path[2], req.path[3], clock)
        [] OTHER -> QueryOf(D, req)

(***************************************************************************)
(* The state machine.  tables and sqlite_sequence are the database file,   *)
(* now is the second CURRENT_TIMESTAMP reads, and writes counts the        *)
(* requests that changed the database.  pc is where the server process is: *)
(* not running, at the k-th seed insert of its start-up, or serving.       *)
(* inflight holds the requests that have arrived and are not answered yet, *)
(* and log the requests whose statement has run, in the order the          *)
(* statements ran; in Spec a request is served in the step it arrives, so  *)
(* both stay empty and the response is the handler's output.               *)
(***************************************************************************)
Db == [ rows |-> tables, seq |-> sqlite_sequence ]

PcStopped == <<"stopped", 0>>
PcSeeding(k) == <<"seeding", k>>
PcServing == <<"serving", 0>>

Init ==
  /\ tables = SeededDb.rows
  /\ sqlite_sequence = SeededDb.seq
  /\ now = 0
  /\ writes = 0
  /\ pc = PcServing
  /\ inflight = {}
  /\ log = <<>>

\* a handler that only reads has run: nothing is left of it but its response
Answer(out) ==
  /\ out.rows = tables /\ out.seq = sqlite_sequence
  /\ UNCHANGED vars

\* a handler that may write has run: its statement is committed
Commit(out) ==
  /\ tables' = out.rows
  /\ sqlite_sequence' = out.seq
  /\ writes' = IF out.rows = tables /\ out.seq = sqlite_sequence
                 THEN writes ELSE writes + 1
  /\ UNCHANGED <<now, pc, inflight, log>>

Tick ==
  /\ now < MaxTime
  /\ now' = now + 1
  /\ UNCHANGED <<tables, sqlite_sequence, writes, pc, inflight, log>>

Me == pc = PcServing /\ \E req \in MeRequests : Answer(MeHandler(Db))

List == pc = PcServing /\ \E req \in ListRequests :
  Answer(ListHandler(Db, req.path[2], req.query))

Create ==
  /\ pc = PcServing
  /\ writes < MaxWrites
  /\ \E req \in CreateRequests :
       Commit(CreateHandler(Db, req.path[2], req.body, now))

Update ==
  /\ pc = PcServing
  /\ writes < MaxWrites
  /\ \E req \in UpdateRequests :
       Commit(UpdateHandler(Db, req.path[2], req.path[3], req.body, now))

SoftDelete ==
  /\ pc = PcServing
  /\ writes < MaxWrites
  /\ \E req \in SoftDeleteRequests :
       Commit(SoftDeleteHandler(Db, req.path[2], req.path[3], now))

ListComments == pc = PcServing /\ \E req \in ListCommentsRequests :
  Answer(CommentsHandler(Db, req.path[3], req.path[4]))

Stats == pc = PcServing /\ \E req \in StatsRequests : Answer(StatsHandler(Db))

Restore ==
  /\ pc = PcServing
  /\ writes < MaxWrites
  /\ \E req \in RestoreRequests :
       Commit(RestoreHandler(Db, req.path[2], req.path[3], now))

Next ==
  \/ Tick
  \/ Me
  \/ List
  \/ Create
  \/ Update
  \/ SoftDelete
  \/ ListComments
  \/ Stats
  \/ Restore

Spec == Init /\ [][Next]_vars

(***************************************************************************)
(* Process starts.  The database file outlives the process: a start runs   *)
(* the schema (CREATE TABLE IF NOT EXISTS changes nothing once the tables  *)
(* are there), counts the roles and, finding none, runs the seed inserts   *)
(* one statement at a time, no transaction around them; the process can    *)
(* die between any two of them.  Requests are served once the start-up     *)
(* code has run through.                                                   *)
(***************************************************************************)
InitFresh ==
  /\ tables = EmptyDb.rows
  /\ sqlite_sequence = EmptyDb.seq
  /\ now = 0
  /\ writes = 0
  /\ pc = PcStopped
  /\ inflight = {}
  /\ log = <<>>

Start ==
  /\ pc = PcStopped
  /\ pc' = IF SeedNeeded(Db) THEN PcSeeding(1) ELSE PcServing
  /\ UNCHANGED <<tables, sqlite_sequence, now, writes, inflight, log>>

\* one seed insert; an insert that throws ends the process
SeedStep ==
  /\ pc[1] = "seeding"
  /\ LET k == pc[2]
         noAdminRole == k = Len(RoleSeeds) + 1 /\ AdminRoles(Db) = {}
         result == ExecSql(Db, SeedStatement(k, Db).sql,
                           SeedStatement(k, Db).params, now)
     IN  IF noAdminRole \/ ~result.ok
           THEN pc' = PcStopped /\ UNCHANGED <<tables, sqlite_sequence>>
           ELSE /\ tables' = result.rows
                /\ sqlite_sequence' = result.seq
                /\ pc' = IF k < SeedCount THEN PcSeeding(k + 1) ELSE PcServing
  /\ UNCHANGED <<now, writes, inflight, log>>

\* the process is killed, during start-up or while serving
Crash ==
  /\ pc # PcStopped
  /\ pc' = PcStopped
  /\ UNCHANGED <<tables, sqlite_sequence, now, writes, inflight, log>>

NextRestarts ==
  \/ Start
  \/ SeedStep
  \/ Crash
  \/ Create
  \/ Update
  \/ SoftDelete
  \/ Restore

SpecRestarts == InitFresh /\ [][NextRestarts]_vars

(***************************************************************************)
(* Requests in flight.  express.json() reads a body asynchronously, so     *)
(* several requests can have arrived before the handler of any of them     *)
(* runs.  A handler builds its statement from the request alone, runs it   *)
(* (db.prepare(sql).run or .all, one call) and answers from what the call  *)
(* returned.  Here the statement and the answer are separate steps, and    *)
(* the steps of different requests interleave freely: more interleavings   *)
(* than one Node process can produce.                                      *)
(***************************************************************************)
\* requests handled at the same time
MaxInflight == 2
\* requests whose statement runs
MaxRequests == 3

ConcurrentRequests ==
  { Request("POST", Api(<<Seg("leads")>>), NoQuery,
            << <<Seg("name"), Text("Acme")>>, <<Seg("owner_id"), Num(1)>> >>),
    Request("PUT", Api(<<Seg("leads"), Seg("1")>>), NoQuery,
            << <<Seg("status"), Text("genjinzhong")>> >>),
    Request("PUT", Api(<<Seg("leads"), Seg("1")>>), NoQuery,
            << <<Seg("id"), Num(7)>> >>),
    Request("DELETE", Api(<<Seg("leads"), Seg("1")>>), NoQuery, <<>>),
    Request("POST", Api(<<Seg("leads"), Seg("1"), Seg("restore")>>), NoQuery, <<>>),
    Request("GET", Api(<<Seg("leads")>>), NoQuery, <<>>) }

Writes(req) ==
  Dispatch(req.method, req.path) \in { "create", "update", "softDelete", "restore" }

\* the statement a writing handler builds and the parameters it binds
StatementOf(req) ==
  LET handler == Dispatch(req.method, req.path)
  IN  CASE handler = "create" ->
             [ sql |-> CreateSql(req.path[2], req.body),
               params |-> Values(req.body) ]
        [] handler = "update" ->
             [ sql |-> UpdateSql(req.path[2], req.body),
               params |-> Values(req.body) \o <<Text(req.path[3][1])>> ]
        [] handler = "softDelete" ->
             [ sql |-> SoftDeleteSql(req.path[2]),
               params |-> <<Text(req.path[3][1])>> ]
        [] handler = "restore" ->
             [ sql |-> RestoreSql(req.path[2]),
               params |-> <<Text(req.path[3][1])>> ]

NoLocal == [ ok |-> TRUE, error |-> "", lastInsertRowid |-> NULL, data |-> JsonSuccess ]

\* the one database call of a handler: the database after it, and what the
\* handler holds in its local variables (result, or the rows of a query)
RunStatement(D, req, clock) ==
  IF Writes(req)
    THEN LET statement == StatementOf(req)
             result == ExecSql(D, statement.sql, statement.params, clock)
         IN  [ rows |-> result.rows, seq |-> result.seq,
               local |-> [ ok |-> result.ok, error |-> result.error,
                           lastInsertRowid |-> result.lastInsertRowid,
                           data |-> JsonSuccess ] ]
    ELSE [ rows |-> D.rows, seq |-> D.seq,
           local |-> [ NoLocal EXCEPT !.data = QueryOf(D, req).response ] ]

ResponseOfReadsDb(D, req, local) ==
  IF ~Writes(req) THEN local.data
  ELSE IF ~local.ok THEN Thrown(local.error)
  ELSE IF Dispatch(req.method, req.path) = "create"
    THEN JsonId(Num(D.seq[req.path[2][1]]))
  ELSE JsonSuccess

\* res.json(...): the answer is made from the handler's local variables; the
\* database at the time of the answer, D, is not read
ResponseOf(D, req, local) ==
  IF ~Writes(req) THEN local.data
  ELSE IF ~local.ok THEN Thrown(local.error)
  ELSE IF Dispatch(req.method, req.path) = "create"
    THEN JsonId(local.lastInsertRowid)
  ELSE JsonSuccess

\* the response slot of a logged request that has not been answered
Pending == JsonError(0, "pending")

InitConcurrent == Init

Arrive ==
  /\ pc = PcServing
  /\ Cardinality(inflight) < MaxInflight
  /\ Len(log) + Cardinality({ f \in inflight : f.phase = "received" }) < MaxRequests
  /\ \E req \in ConcurrentRequests :
       LET f == [ req |-> req, phase |-> "received", slot |-> 0, local |-> NoLocal ]
       IN  f \notin inflight /\ inflight' = inflight \cup { f }
  /\ UNCHANGED <<tables, sqlite_sequence, now, writes, pc, log>>

Run ==
  /\ pc = PcServing
  /\ \E f \in inflight :
       /\ f.phase = "received"
       /\ LET out == RunStatement(Db, f.req, now)
          IN  /\ tables' = out.rows
              /\ sqlite_sequence' = out.seq
              /\ log' = Append(log, [ req |-> f.req, clock |-> now,
                                      response |-> Pending ])
              /\ inflight' = (inflight \ { f })
                   \cup { [ f EXCEPT !.phase = "ran", !.slot = Len(log) + 1,
                                     !.local = out.local ] }
              /\ writes' = IF out.rows = tables /\ out.seq = sqlite_sequence
                             THEN writes ELSE writes + 1
  /\ UNCHANGED <<now, pc>>

Respond ==
  /\ pc = PcServing
  /\ \E f \in inflight :
       /\ f.phase = "ran"
       /\ log' = [ log EXCEPT ![f.slot].response = ResponseOf(Db, f.req, f.local) ]
       /\ inflight' = inflight \ { f }
  /\ UNCHANGED <<tables, sqlite_sequence, now, writes, pc>>

NextConcurrent ==
  \/ Tick
  \/ Arrive
  \/ Run
  \/ Respond

SpecConcurrent == InitConcurrent /\ [][NextConcurrent]_vars

(***************************************************************************)
(* Properties.                                                             *)
(***************************************************************************)
Range(f) == { f[i] : i \in DOMAIN f }

AllowList == { Seg(validModules[i]) : i \in DOMAIN validModules }

\* the response of the InvalidModule failure, the database untouched
RejectedAsInvalid(out) ==
  /\ out.response.status = 404
  /\ out.response.error = "Invalid module"
  /\ out.rows = tables /\ out.seq = sqlite_sequence

\* C1: a module string outside the allow-list makes list, create, update,
\* softDelete and restore fail with InvalidModule without touching storage.
C1_AllowListEnforced ==
  \A m \in (ModuleInputs \cup ListModuleInputs) \ AllowList :
    /\ \A q \in QueryInputs : RejectedAsInvalid(ListHandler(Db, m, q))
    /\ \A b \in CreateBodies : RejectedAsInvalid(CreateHandler(Db, m, b, now))
    /\ \A i \in IdInputs :
         /\ \A b \in UpdateBodies :
              RejectedAsInvalid(UpdateHandler(Db, m, i, b, now))
         /\ RejectedAsInvalid(SoftDeleteHandler(Db, m, i, now))
         /\ RejectedAsInvalid(RestoreHandler(Db, m, i, now))

\* C2: comments are append-only: a comment row that is stored stays stored,
\* unchanged, whatever request is served next.
C2_CommentsImmutable ==
  [][\A c \in tables["comments"] : c \in tables'["comments"]]_vars

\* C3: the default list of a module returns no deleted record, and the list
\* with is_deleted true (sent as 1 or as true) returns deleted records only.
C3_DefaultFiltering ==
  \A m \in AllowList :
    /\ LET out == ListHandler(Db, m, NoQuery)
       IN  /\ out.response.status = 200
           /\ \A r \in Range(out.response.rows) : r["is_deleted"] = Num(0)
    /\ \A flag \in { Text("1"), Text("true") } :
         LET out == ListHandler(Db, m, [NoQuery EXCEPT !.is_deleted = flag])
         IN  /\ out.response.status = 200
             /\ \A r \in Range(out.response.rows) : r["is_deleted"] = Num(1)

\* C3's case: a module holds a deleted and a live record after requests have
\* written, and each of the two lists returns something.
C3_Witness ==
  /\ writes > 0
  /\ \E m \in AllowList :
       /\ \E r \in tables[m[1]] : r["is_deleted"] = Num(1)
       /\ ListHandler(Db, m, NoQuery).response.rows # <<>>
       /\ ListHandler(Db, m, [NoQuery EXCEPT !.is_deleted = Text("1")]).response.rows
            # <<>>

\* the :id segment that names a row
IdSegment(r) == Seg(ToString(r["id"][2]))

\* the database and response after softDelete at second t1 then restore at t2
RoundTrip(m, r, t1, t2) ==
  LET deleted == SoftDeleteHandler(Db, m, IdSegment(r), t1)
      restored == RestoreHandler(DbOf(deleted), m, IdSegment(r), t2)
  IN  [ deleted |-> deleted, restored |-> restored ]

\* C4: softDelete then restore of a live record gives the record back, equal
\* in every field but updated_at and deleted_at, and the default list of its
\* module returns it again.
C4_DeleteRestoreRoundTrip ==
  \A m \in AllowList : \A r \in tables[m[1]] :
    r["is_deleted"] = Num(0) =>
      \A t2 \in now..MaxTime :
        LET rt == RoundTrip(m, r, now, t2)
            after == { x \in rt.restored.rows[m[1]] : x["id"] = r["id"] }
        IN  /\ rt.deleted.response.status = 200
            /\ rt.restored.response.status = 200
            /\ Cardinality(after) = 1
            /\ \A x \in after :
                 /\ \A c \in Columns(m[1]) \ { "updated_at", "deleted_at" } :
                      x[c] = r[c]
                 /\ x \in Range(ListHandler(DbOf(rt.restored), m,
                                            NoQuery).response.rows)

\* C4's case: a record a request created is live, softDelete takes it out of
\* the default list and marks it, and restore brings it back.
C4_Witness ==
  \E m \in AllowList : \E r \in tables[m[1]] \ SeededDb.rows[m[1]] :
    /\ r["is_deleted"] = Num(0)
    /\ r["id"] \notin { x["id"] : x \in SeededDb.rows[m[1]] }
    /\ LET rt == RoundTrip(m, r, now, now)
       IN  /\ \E x \in rt.deleted.rows[m[1]] :
                /\ x["id"] = r["id"] /\ x["is_deleted"] = Num(1)
                /\ x \notin Range(ListHandler(DbOf(rt.deleted), m,
                                              NoQuery).response.rows)
           /\ \E x \in rt.restored.rows[m[1]] :
                /\ x["id"] = r["id"] /\ x["is_deleted"] = Num(0)
                /\ x \in Range(ListHandler(DbOf(rt.restored), m,
                                           NoQuery).response.rows)

\* some row of module m has the id the segment names
RowExists(m, i) ==
  \E r \in tables[m[1]] : SqlEquals(Affinity(m[1], "id"), r["id"], Text(i[1]))

\* C5: update, softDelete and restore of an id that no row of the module has
\* fail (NotFound); they do not report success.
C5_NotFoundReported ==
  \A m \in (ModuleInputs \cup ListModuleInputs) \cap AllowList :
    \A i \in IdInputs :
      ~RowExists(m, i) =>
        /\ \A b \in UpdateBodies :
             UpdateHandler(Db, m, i, b, now).response.status # 200
        /\ SoftDeleteHandler(Db, m, i, now).response.status # 200
        /\ RestoreHandler(Db, m, i, now).response.status # 200

\* the columns of table t that the body names, and whether it names anything else
SuppliedColumns(t, body) == { c \in Columns(t) : Seg(c) \in Range(Keys(body)) }
HasUnknownKey(t, body) ==
  \E k \in Range(Keys(body)) : k \notin { Seg(c) : c \in Columns(t) }

\* C6: create with a key that is no column of the module's table fails
\* (UnknownField) and creates no row.
C6_UnknownFieldRejected ==
  \A m \in ModuleInputs \cap AllowList : \A b \in CreateBodies :
    HasUnknownKey(m[1], b) =>
      LET out == CreateHandler(Db, m, b, now)
      IN  out.response.status # 200 /\ out.rows = tables

\* C7: an id, once assigned, stays the id of its record (no table loses an
\* id in a step; rows are never removed), and no two rows of a module share
\* an id.
C7_IdImmutable ==
  [][\A m \in AllowList :
       /\ { r["id"] : r \in tables[m[1]] } \subseteq { r["id"] : r \in tables'[m[1]] }
       /\ PrimaryKeyOk(tables', m[1])]_vars

\* C8: a successful update changes, in the record with the id, only the
\* fields the body names and updated_at (set to the current second), and it
\* changes no other record of any table.
C8_UpdateIsolatesFields ==
  [][\A req \in UpdateRequests :
       LET out == UpdateHandler(Db, req.path[2], req.path[3], req.body, now)
           t == req.path[2][1]
           frame == Columns(t) \ (SuppliedColumns(t, req.body) \cup { "updated_at" })
       IN  ( /\ req.path[2] \in AllowList
             /\ out.response.status = 200
             /\ tables' = out.rows /\ sqlite_sequence' = out.seq ) =>
             /\ \A o \in Tables \ { t } : tables'[o] = tables[o]
             /\ Cardinality(tables'[t]) = Cardinality(tables[t])
             /\ \A r \in tables[t] :
                  IF SqlEquals(Affinity(t, "id"), r["id"], Text(req.path[3][1]))
                    THEN \E x \in tables'[t] :
                           /\ \A c \in frame : x[c] = r[c]
                           /\ x["updated_at"] = Time(now)
                    ELSE r \in tables'[t]]_vars

\* C9: softDelete and restore change nothing but is_deleted and deleted_at of
\* the record with the id in the module the request names; every other
\* record of every table is left as it was.
C9_DeleteRestoreFrame ==
  [][\A req \in SoftDeleteRequests \cup RestoreRequests :
       LET out == IF req \in SoftDeleteRequests
                    THEN SoftDeleteHandler(Db, req.path[2], req.path[3], now)
                    ELSE RestoreHandler(Db, req.path[2], req.path[3], now)
       IN  (tables' = out.rows /\ sqlite_sequence' = out.seq) =>
             \A t \in Tables :
               /\ Cardinality(tables'[t]) = Cardinality(tables[t])
               /\ \A r \in tables[t] :
                    \/ r \in tables'[t]
                    \/ /\ req.path[2] = Seg(t)
                       /\ SqlEquals(Affinity(t, "id"), r["id"], Text(req.path[3][1]))
                       /\ \E x \in tables'[t] :
                            \A c \in Columns(t) \ { "is_deleted", "deleted_at" } :
                               x[c] = r[c]]_vars

\* txt contains q, letters compared without case
Contains(txt, q) ==
  \E k \in 0..(Len(txt) - Len(q)) :
    \A j \in 1..Len(q) : Fold(txt[k + j]) = Fold(q[j])

\* the records of module m that satisfy every filter of the query
Satisfying(m, query) ==
  LET t == m[1]
      flag == IF query.is_deleted = Undefined THEN Num(0)
              ELSE ApplyAffinity("INTEGER", query.is_deleted)
      has(r, c, q) == c \in Columns(t) /\ IsText(r[c]) /\ Contains(Spell(r[c][2]), Spell(q))
  IN  { r \in tables[t] :
          /\ r["is_deleted"] = flag
          /\ query.q # Undefined =>
               has(r, "name", query.q[2]) \/ has(r, "contact_person", query.q[2])
          /\ query.status # Undefined =>
               "status" \in Columns(t) /\ r["status"] = query.status }

\* C10: for every module of the allow-list and every combination of the
\* filters is_deleted, q and status, list succeeds and returns exactly the
\* records of the module that satisfy all of them.
C10_ListReturnsMatching ==
  \A m \in AllowList :
    \A query \in QueryInputs \ { [NoQuery EXCEPT !.is_deleted = Text("true")] } :
      LET out == ListHandler(Db, m, query)
      IN  /\ out.response.status = 200
          /\ Range(out.response.rows) = Satisfying(m, query)

\* column c of a new row holds its schema default: the module's default
\* status, is_deleted = 0, the second of the insert in both timestamps, and
\* NULL in a column that declares no default
HoldsSchemaDefault(t, row, c, clock) ==
  CASE c = "status" -> row[c] = Text(StatusDefault[t])
    [] c = "is_deleted" -> row[c] = Num(0)
    [] c \in { "created_at", "updated_at" } -> row[c] = Time(clock)
    [] OTHER -> row[c] = NULL

\* the rows of table t that a handler's outcome adds to the current ones
AddedRows(t, out) == out.rows[t] \ tables[t]

\* C11: a successful create on a module of the allow-list adds exactly one
\* record, answers with an id that no record of the module had and that the
\* new record has, and every column the body does not name holds its schema
\* default (default status, is_deleted = 0, created_at and updated_at the
\* current second).
C11_CreateAppliesDefaults ==
  \A m \in ModuleInputs \cap AllowList : \A b \in CreateBodies :
    LET t == m[1]
        out == CreateHandler(Db, m, b, now)
    IN  out.response.status = 200 =>
          /\ \A o \in Tables \ { t } : out.rows[o] = tables[o]
          /\ tables[t] \subseteq out.rows[t]
          /\ Cardinality(AddedRows(t, out)) = 1
          /\ \A row \in AddedRows(t, out) :
               /\ out.response.id = row["id"]
               /\ row["id"] \notin { r["id"] : r \in tables[t] }
               /\ \A c \in Columns(t) \ (SuppliedColumns(t, b) \cup { "id" }) :
                    HoldsSchemaDefault(t, row, c, now)

\* C12: created_at is set once, at creation: whatever request is served, a
\* record of a module that keeps its id keeps its created_at.
C12_CreatedAtSetOnce ==
  [][\A m \in AllowList : \A r \in tables[m[1]] : \A x \in tables'[m[1]] :
       x["id"] = r["id"] => x["created_at"] = r["created_at"]]_vars

\* the value the body gives column c (the last pair that names it counts)
Supplied(body, c) ==
  body[SetMax({ k \in DOMAIN body : body[k][1] = Seg(c) })][2]

\* C13: update of an existing record with a body whose keys are all columns
\* of the module (the empty body and a body that names updated_at included)
\* succeeds, stores the supplied values and sets updated_at to the current
\* second.
C13_UpdateStampsUpdatedAt ==
  \A m \in ModuleInputs \cap AllowList : \A i \in IdInputs : \A b \in UpdateBodies :
    (RowExists(m, i) /\ ~HasUnknownKey(m[1], b)) =>
      LET t == m[1]
          out == UpdateHandler(Db, m, i, b, now)
          id == IF "id" \in SuppliedColumns(t, b) THEN Supplied(b, "id")
                ELSE Text(i[1])
      IN  /\ out.response.status = 200
          /\ \E x \in out.rows[t] :
               /\ SqlEquals(Affinity(t, "id"), x["id"], id)
               /\ x["updated_at"] = Time(now)
               /\ \A c \in SuppliedColumns(t, b) \ { "updated_at" } :
                    x[c] = ApplyAffinity(Affinity(t, c), Supplied(b, c))

\* the outcomes of softDelete of record r at second t1 and again at t2
DeleteTwice(m, r, t1, t2) ==
  LET first == SoftDeleteHandler(Db, m, IdSegment(r), t1)
      second == SoftDeleteHandler(DbOf(first), m, IdSegment(r), t2)
  IN  [ first |-> first, second |-> second ]

\* C18: softDelete twice on the id of an existing record succeeds both
\* times and leaves is_deleted = 1; the second call changes nothing but the
\* record's deleted_at, which becomes the second of the second call.
C18_DeleteIdempotent ==
  \A m \in AllowList : \A r \in tables[m[1]] : \A t2 \in now..MaxTime :
    LET t == m[1]
        dt == DeleteTwice(m, r, now, t2)
        mine(R) == { x \in R[t] : x["id"] = r["id"] }
    IN  /\ dt.first.response.status = 200
        /\ dt.second.response.status = 200
        /\ \A o \in Tables \ { t } : dt.second.rows[o] = dt.first.rows[o]
        /\ dt.second.rows[t] \ mine(dt.second.rows)
             = dt.first.rows[t] \ mine(dt.first.rows)
        /\ Cardinality(mine(dt.second.rows)) = 1
        /\ \A x \in mine(dt.first.rows) : \A y \in mine(dt.second.rows) :
             /\ y["is_deleted"] = Num(1)
             /\ y["deleted_at"] = Time(t2)
             /\ \A c \in Columns(t) \ { "deleted_at" } : y[c] = x[c]

\* C18's case: a record that a request deleted in an earlier second is
\* deleted again now, and its deleted_at moves to the current second.
C18_Witness ==
  \E m \in AllowList : \E r \in tables[m[1]] :
    /\ r["is_deleted"] = Num(1)
    /\ IsTime(r["deleted_at"]) /\ r["deleted_at"][2] < now
    /\ \E x \in SoftDeleteHandler(Db, m, IdSegment(r), now).rows[m[1]] :
         x["id"] = r["id"] /\ x["deleted_at"] = Time(now)

\* C20: in every record of a module deleted_at is set exactly when
\* is_deleted is 1.
C20_FlagAgreesWithStamp ==
  \A m \in AllowList : \A r \in tables[m[1]] :
    (r["deleted_at"] # NULL) <=> (r["is_deleted"] = Num(1))

\* the POST /api/comments requests
CommentPosts ==
  { req \in Requests :
      req.method = "POST" /\ req.path = Api(<<Seg("comments")>>) }

\* C19: a POST to /api/comments is dispatched to the dedicated comment
\* handler, not to the generic create handler: what the program does with
\* it is what app.post("/api/comments") does, a comment row built from the
\* five body fields alone, whatever other keys the body has.
C19_CommentPostDispatch ==
  \A req \in CommentPosts :
    /\ Dispatch(req.method, req.path) = "postComment"
    /\ Serve(Db, req, now) \in PostCommentOutcomes(Db, req.body, now)

\* the comments stored for the pair the two segments name
CommentsOf(type, id) ==
  { c \in tables["comments"] :
      /\ c["entity_type"] = Text(type[1])
      /\ SqlEquals(Affinity("comments", "entity_id"), c["entity_id"], Text(id[1])) }

\* C15: listFor(entityType, entityId) returns every comment stored for the
\* pair and no other, each with the name of the user who posted it, newest
\* first.
C15_ListForReturnsAll ==
  \A req \in ListCommentsRequests :
    LET out == CommentsHandler(Db, req.path[3], req.path[4])
        rows == out.response.rows
    IN  /\ out.response.status = 200
        /\ { [ c \in Columns("comments") |-> rows[k][c] ] : k \in DOMAIN rows }
             = CommentsOf(req.path[3], req.path[4])
        /\ Len(rows) = Cardinality(CommentsOf(req.path[3], req.path[4]))
        /\ \A k \in DOMAIN rows :
             \E u \in tables["users"] :
               u["id"] = rows[k]["user_id"] /\ u["username"] = rows[k]["username"]
        /\ \A j, k \in DOMAIN rows :
             j < k => ~SortsBefore(rows[j]["created_at"], rows[k]["created_at"])

\* the opportunities the summary counts, and those of one stage
LiveOpportunities == { r \in tables["opportunities"] : r["is_deleted"] = Num(0) }
InStage(stage) == { r \in LiveOpportunities : r["stage"] = stage }

\* the sum of the amounts of a set of opportunities, taken in id order; an
\* opportunity without an amount adds nothing
RECURSIVE TotalOf(_)
TotalOf(S) ==
  IF S = {} THEN 0
  ELSE LET top == CHOOSE r \in S : \A o \in S : o["id"][2] <= r["id"][2]
       IN  TotalOf(S \ { top }) + (IF IsNum(top["amount"]) THEN top["amount"][2] ELSE 0)

\* C16: the stage summary has exactly one entry per stage that a non-deleted
\* opportunity has; its count is the number of non-deleted opportunities of
\* the stage and its total the sum of their amounts (the claim does not say
\* what the total of a stage without any amount is: null and 0 both pass).
C16_StageSummary ==
  LET groups == StatsHandler(Db).response.groups
  IN  /\ StatsHandler(Db).response.status = 200
      /\ { g.stage : g \in groups } = { r["stage"] : r \in LiveOpportunities }
      /\ \A g, h \in groups : g.stage = h.stage => g = h
      /\ \A g \in groups :
           /\ g.count = Cardinality(InStage(g.stage))
           /\ IF \E r \in InStage(g.stage) : IsNum(r["amount"])
                THEN g.total_amount = Num(TotalOf(InStage(g.stage)))
                ELSE g.total_amount \in { NULL, Num(0) }

\* C16's case: a stage holds two non-deleted opportunities and is reported
\* with count 2 and the sum of their amounts; softDelete of one of them
\* leaves the stage with the other alone, and restore brings the summary
\* back.
C16_Witness ==
  \E g \in StatsHandler(Db).response.groups : \E r \in InStage(g.stage) :
    /\ g.count = 2
    /\ g.total_amount = Num(70000)
    /\ LET deleted == SoftDeleteHandler(Db, Seg("opportunities"), IdSegment(r), now)
           restored == RestoreHandler(DbOf(deleted), Seg("opportunities"),
                                      IdSegment(r), now)
       IN  /\ \E h \in StatsHandler(DbOf(deleted)).response.groups :
                h.stage = g.stage /\ h.count = 1
                  /\ h.total_amount = Num(70000 - r["amount"][2])
           /\ StatsHandler(DbOf(restored)).response.groups
                = StatsHandler(Db).response.groups

\* the rows of the table a seed statement inserts into that hold the
\* statement's values in the columns it names
SeedRowsOf(t, cols, params) ==
  { r \in tables[t] :
      \A i \in DOMAIN cols : r[cols[i]] = ApplyAffinity(Affinity(t, cols[i]), params[i]) }

\* no seed row is stored twice
SeedRowsAtMostOnce ==
  /\ \A i \in DOMAIN RoleSeeds :
       Cardinality(SeedRowsOf("roles", RoleColumns, RoleSeeds[i])) <= 1
  /\ Cardinality({ u \in tables["users"] : u["username"] = Text("admin") }) <= 1
  /\ \A i \in DOMAIN LeadSeeds :
       Cardinality(SeedRowsOf("leads", LeadColumns, LeadSeeds[i])) <= 1
  /\ \A i \in DOMAIN CustomerSeeds :
       Cardinality(SeedRowsOf("customers", CustomerColumns, CustomerSeeds[i])) <= 1
  /\ \A i \in DOMAIN OpportunitySeeds :
       Cardinality(SeedRowsOf("opportunities", OpportunityColumns,
                              OpportunitySeeds[i])) <= 1

\* C14: over any number of process starts, with requests served in between
\* and starts that die part-way through seeding, a start goes on to insert
\* seed rows if and only if it finds the roles table empty, and no seed row
\* (role, admin user, sample lead, customer or opportunity) is ever stored
\* twice.
C14_SeedOnlyWhenEmpty ==
  [][/\ (pc = PcStopped /\ pc' # pc) =>
          (pc' = PcSeeding(1) <=> tables["roles"] = {})
     /\ SeedRowsAtMostOnce']_vars

\* C14's case: a start died after the roles were in and before the admin
\* user was; a later start found roles and did not seed, and the process
\* has served requests that wrote.
C14_Witness ==
  /\ pc = PcServing
  /\ Cardinality(tables["roles"]) = Len(RoleSeeds)
  /\ tables["users"] = {}
  /\ writes > 0

\* the database after the first k logged requests, served one after the
\* other, each completely, at the second its statement ran
RECURSIVE ReplayDb(_)
ReplayDb(k) ==
  IF k = 0 THEN DbOf(SeededDb)
  ELSE DbOf(Serve(ReplayDb(k - 1), log[k].req, log[k].clock))

\* C17: however the steps of the requests in flight interleave, the
\* database is the one that serving the logged requests one at a time, in
\* the order their statements ran, leaves, and every response sent is the
\* response of that sequential execution.
C17_Serializable ==
  /\ Db = ReplayDb(Len(log))
  /\ \A k \in DOMAIN log :
       log[k].response # Pending =>
         log[k].response = Serve(ReplayDb(k - 1), log[k].req, log[k].clock).response

\* C17's case: two writing requests overlap: the first has run its
\* statement and is not answered while the second has run and been
\* answered, and a third request has arrived.
C17_Witness ==
  /\ Len(log) >= 2
  /\ log[1].response = Pending
  /\ log[2].response.status = 200
  /\ Writes(log[1].req) /\ Writes(log[2].req)
  /\ ReplayDb(1) # DbOf(SeededDb) /\ ReplayDb(2) # ReplayDb(1)
  /\ \E f \in inflight : f.phase = "received"

====
